---------------------------- MODULE Spec2Model ----------------------------
(***************************************************************************)
(* Clinical NLP analysis edge function                                     *)
(* (supabase/functions/clinical-nlp-analysis/index.ts).                    *)
(*                                                                         *)
(* Texts are sequences of one-character strings.  Offsets are 0-based as   *)
(* in JavaScript: the character at offset i of t is t[i + 1].  Real        *)
(* numbers (confidences, thresholds, random draws) are fixed-point         *)
(* integers in units of 1 / Scale.                                         *)
(***************************************************************************)
EXTENDS Integers, Sequences, FiniteSets, TLC

(***************************************************************************)
(* Bounds of the model.                                                    *)
(***************************************************************************)
\* longest request text, in characters
MaxTextLen == 24
\* length of the cycle of Math.random() outcomes chosen for one request
MaxDraws == 2
\* number of times a request is sent again after it was answered
MaxRepeats == 1
\* most sentences of a text made of short sentences
MaxSentences == 10
\* most files selected for one batch
MaxFiles == 3

(***************************************************************************)
(* Characters.                                                             *)
(***************************************************************************)
UpperCase == <<"A","B","C","D","E","F","G","H","I","J","K","L","M",
               "N","O","P","Q","R","S","T","U","V","W","X","Y","Z">>
LowerCase == <<"a","b","c","d","e","f","g","h","i","j","k","l","m",
               "n","o","p","q","r","s","t","u","v","w","x","y","z">>
Digit == {"0","1","2","3","4","5","6","7","8","9"}
\* \s of the regular expressions and of String.prototype.trim
Space == {" ", "\t", "\n"}
Punct == {".", "!", "?", "-", "+", ",", "_"}
Range(s) == {s[i] : i \in 1..Len(s)}
\* \w, the word characters that decide \b
WordChar == Range(UpperCase) \cup Range(LowerCase) \cup Digit \cup {"_"}
Char == WordChar \cup Space \cup Punct

\* String.prototype.toLowerCase on one character
LowerOf == [c \in Char |->
              IF c \in Range(UpperCase)
              THEN LowerCase[CHOOSE i \in 1..Len(UpperCase) : UpperCase[i] = c]
              ELSE c]
toLowerCase(s) == [i \in 1..Len(s) |-> LowerOf[s[i]]]

\* String.prototype.substring(from, to) for 0 <= from <= to <= length
substring(s, from, to) == SubSeq(s, from + 1, to)

\* F(v) with the value v computed once, as a const declaration holds a value
With(v, F(_)) == CHOOSE r \in {F(x) : x \in {v}} : TRUE

(***************************************************************************)
(* Regular expressions.  A pattern is a sequence of nodes; a node is a     *)
(* quantified character class, an alternation of patterns, or \b.          *)
(* Quantifiers are greedy and alternatives are tried left to right, with   *)
(* backtracking, as in the ECMAScript matcher.                             *)
(***************************************************************************)
Rep(S, lo, hi) == [k |-> "cls", chars |-> S, lo |-> lo, hi |-> hi, inf |-> FALSE]
One(S)  == <<Rep(S, 1, 1)>>
Opt(S)  == <<Rep(S, 0, 1)>>
Star(S) == <<[k |-> "cls", chars |-> S, lo |-> 0, hi |-> 0, inf |-> TRUE]>>
Plus(S) == <<[k |-> "cls", chars |-> S, lo |-> 1, hi |-> 1, inf |-> TRUE]>>
Lit(w)  == [i \in 1..Len(w) |-> Rep({w[i]}, 1, 1)]
Alt(alts) == <<[k |-> "alt", alts |-> alts]>>
WordBoundary == <<[k |-> "wb"]>>

\* the result null of RegExp.prototype.exec and String.prototype.match
NoMatch == 0 - 1

\* does character c belong to class S (flag i: compared case-folded)
InClass(c, S, ci) ==
  IF ci THEN \E x \in S : LowerOf[x] = LowerOf[c] ELSE c \in S

\* number of consecutive characters of class S from offset i, at most cap
\* (cap < 0: no cap)
RECURSIVE Run(_, _, _, _, _)
Run(t, ci, S, i, cap) ==
  IF cap = 0 \/ i >= Len(t) \/ ~InClass(t[i + 1], S, ci) THEN 0
  ELSE 1 + Run(t, ci, S, i + 1, cap - 1)

\* \b at offset i: exactly one of the characters around it is a word character
IsWordBoundary(t, i) ==
  LET before == i > 0 /\ t[i] \in WordChar
      after  == i < Len(t) /\ t[i + 1] \in WordChar
  IN before # after

RECURSIVE MatchAt(_, _, _, _), TryCount(_, _, _, _, _, _), TryAlt(_, _, _, _, _, _)
\* end offset of the match of the pattern nodes starting at offset i, or NoMatch
MatchAt(t, ci, nodes, i) ==
  IF Len(nodes) = 0 THEN i
  ELSE LET n == Head(nodes)
           rest == Tail(nodes)
       IN IF n.k = "alt" THEN TryAlt(t, ci, n.alts, rest, i, 1)
          ELSE IF n.k = "wb"
               THEN IF IsWordBoundary(t, i) THEN MatchAt(t, ci, rest, i) ELSE NoMatch
          ELSE LET most == Run(t, ci, n.chars, i, IF n.inf THEN NoMatch ELSE n.hi)
               IN TryCount(t, ci, rest, i, most, n.lo)
\* greedy quantifier: the longest repetition first, then shorter ones
TryCount(t, ci, rest, i, c, lo) ==
  IF c < lo THEN NoMatch
  ELSE LET e == MatchAt(t, ci, rest, i + c)
       IN IF e # NoMatch THEN e ELSE TryCount(t, ci, rest, i, c - 1, lo)
\* alternation: the first alternative that lets the rest match
TryAlt(t, ci, alts, rest, i, a) ==
  IF a > Len(alts) THEN NoMatch
  ELSE LET e == MatchAt(t, ci, alts[a] \o rest, i)
       IN IF e # NoMatch THEN e ELSE TryAlt(t, ci, alts, rest, i, a + 1)

\* RegExp.prototype.exec from lastIndex: the leftmost match at or after it
exec(re, t, lastIndex) ==
  LET found == {p \in lastIndex..Len(t) : MatchAt(t, re.ci, re.nodes, p) # NoMatch}
  IN IF found = {} THEN [index |-> NoMatch, end |-> NoMatch]
     ELSE CHOOSE m \in {[index |-> p, end |-> MatchAt(t, re.ci, re.nodes, p)] :
                           p \in found} :
            \A q \in found : m.index <= q

(***************************************************************************)
(* The rule table of extractEntities.                                      *)
(***************************************************************************)
Re(nodes, ci) == [nodes |-> nodes, ci |-> ci]
Rule(regex, type) == [regex |-> regex, type |-> type]
\* [-\s] and [\s-]
DashOrSpace == {"-"} \cup Space

\* Tumor characteristics patterns
tumorPatterns == <<
  Rule(Re(Plus(Digit) \o Opt({"."}) \o Star(Digit) \o Star(Space)
          \o Alt(<<Lit(<<"c","m">>), Lit(<<"m","m">>), Lit(<<"c","e","n","t","i","m","e","t","e","r">>), Lit(<<"m","i","l","l","i","m","e","t","e","r">>)>>),
          TRUE), "TUMOR_SIZE"),
  Rule(Re(Lit(<<"i","n","v","a","s","i","v","e">>) \o Plus(Space) \o Lit(<<"d","u","c","t","a","l">>) \o Plus(Space)
          \o Lit(<<"c","a","r","c","i","n","o","m","a">>), TRUE), "TUMOR_TYPE"),
  Rule(Re(Lit(<<"i","n","f","i","l","t","r","a","t","i","n","g">>) \o Plus(Space) \o Lit(<<"l","o","b","u","l","a","r">>) \o Plus(Space)
          \o Lit(<<"c","a","r","c","i","n","o","m","a">>), TRUE), "TUMOR_TYPE"),
  Rule(Re(Lit(<<"d","u","c","t","a","l">>) \o Plus(Space) \o Lit(<<"c","a","r","c","i","n","o","m","a">>) \o Plus(Space)
          \o Lit(<<"i","n">>) \o Plus(Space) \o Lit(<<"s","i","t","u">>), TRUE), "TUMOR_TYPE"),
  Rule(Re(Lit(<<"D","C","I","S">>), FALSE), "TUMOR_TYPE"),
  Rule(Re(Lit(<<"t","r","i","p","l","e">>) \o One(DashOrSpace) \o Lit(<<"n","e","g","a","t","i","v","e">>), TRUE),
       "TUMOR_CLASSIFICATION") >>

\* Receptor status patterns
receptorPatterns == <<
  Rule(Re(Alt(<<Lit(<<"E","R">>) \o One(DashOrSpace) \o Lit(<<"p","o","s","i","t","i","v","e">>),
                Lit(<<"e","s","t","r","o","g","e","n">>) \o Plus(Space) \o Lit(<<"r","e","c","e","p","t","o","r">>) \o Plus(Space)
                \o Lit(<<"p","o","s","i","t","i","v","e">>)>>), TRUE), "RECEPTOR_STATUS"),
  Rule(Re(Alt(<<Lit(<<"E","R">>) \o One(DashOrSpace) \o Lit(<<"n","e","g","a","t","i","v","e">>),
                Lit(<<"e","s","t","r","o","g","e","n">>) \o Plus(Space) \o Lit(<<"r","e","c","e","p","t","o","r">>) \o Plus(Space)
                \o Lit(<<"n","e","g","a","t","i","v","e">>)>>), TRUE), "RECEPTOR_STATUS"),
  Rule(Re(Alt(<<Lit(<<"P","R">>) \o One(DashOrSpace) \o Lit(<<"p","o","s","i","t","i","v","e">>),
                Lit(<<"p","r","o","g","e","s","t","e","r","o","n","e">>) \o Plus(Space) \o Lit(<<"r","e","c","e","p","t","o","r">>) \o Plus(Space)
                \o Lit(<<"p","o","s","i","t","i","v","e">>)>>), TRUE), "RECEPTOR_STATUS"),
  Rule(Re(Alt(<<Lit(<<"P","R">>) \o One(DashOrSpace) \o Lit(<<"n","e","g","a","t","i","v","e">>),
                Lit(<<"p","r","o","g","e","s","t","e","r","o","n","e">>) \o Plus(Space) \o Lit(<<"r","e","c","e","p","t","o","r">>) \o Plus(Space)
                \o Lit(<<"n","e","g","a","t","i","v","e">>)>>), TRUE), "RECEPTOR_STATUS"),
  Rule(Re(Alt(<<Lit(<<"H","E","R","2">>) \o One(DashOrSpace) \o Lit(<<"p","o","s","i","t","i","v","e">>),
                Lit(<<"H","E","R","2","+">>)>>), TRUE), "RECEPTOR_STATUS"),
  Rule(Re(Alt(<<Lit(<<"H","E","R","2">>) \o One(DashOrSpace) \o Lit(<<"n","e","g","a","t","i","v","e">>),
                Lit(<<"H","E","R","2","-">>)>>), TRUE), "RECEPTOR_STATUS") >>

\* Stage and grade patterns
stagePatterns == <<
  Rule(Re(Lit(<<"s","t","a","g","e">>) \o Plus(Space)
          \o Alt(<< <<Rep({"I"}, 1, 3)>>, Lit(<<"I","V">>), One({"1","2","3","4"}) >>)
          \o Opt({"A","B","C"}), TRUE), "STAGE"),
  Rule(Re(Lit(<<"g","r","a","d","e">>) \o Plus(Space)
          \o Alt(<< One({"1","2","3"}), <<Rep({"I"}, 1, 3)>> >>), TRUE), "GRADE"),
  Rule(Re(Lit(<<"T">>) \o One({"1","2","3","4"}) \o Opt({"a","b","c"})
          \o Lit(<<"N">>) \o One({"0","1","2","3"}) \o Lit(<<"M">>) \o One({"0","1"}),
          TRUE), "TNM_STAGE") >>

\* Treatment patterns
treatmentPatterns == <<
  Rule(Re(Lit(<<"c","h","e","m","o","t","h","e","r","a","p","y">>), TRUE), "TREATMENT"),
  Rule(Re(Alt(<<Lit(<<"r","a","d","i","a","t","i","o","n">>) \o Plus(Space) \o Lit(<<"t","h","e","r","a","p","y">>),
                Lit(<<"r","a","d","i","o","t","h","e","r","a","p","y">>)>>), TRUE), "TREATMENT"),
  Rule(Re(Alt(<<Lit(<<"m","a","s","t","e","c","t","o","m","y">>), Lit(<<"l","u","m","p","e","c","t","o","m","y">>),
                Lit(<<"b","r","e","a","s","t">>) \o One(DashOrSpace) \o Lit(<<"c","o","n","s","e","r","v","i","n","g">>)
                \o Plus(Space) \o Lit(<<"s","u","r","g","e","r","y">>)>>), TRUE), "TREATMENT"),
  Rule(Re(Alt(<<Lit(<<"t","a","m","o","x","i","f","e","n">>), Lit(<<"a","n","a","s","t","r","o","z","o","l","e">>), Lit(<<"l","e","t","r","o","z","o","l","e">>),
                Lit(<<"e","x","e","m","e","s","t","a","n","e">>)>>), TRUE), "MEDICATION"),
  Rule(Re(Alt(<<Lit(<<"t","r","a","s","t","u","z","u","m","a","b">>), Lit(<<"p","e","r","t","u","z","u","m","a","b">>), Lit(<<"p","a","c","l","i","t","a","x","e","l">>),
                Lit(<<"d","o","x","o","r","u","b","i","c","i","n">>)>>), TRUE), "MEDICATION") >>

\* Demographics
demoPatterns == <<
  Rule(Re(WordBoundary \o <<Rep(Digit, 1, 3)>> \o One(DashOrSpace) \o Lit(<<"y","e","a","r">>)
          \o One(DashOrSpace) \o Lit(<<"o","l","d">>), TRUE), "AGE"),
  Rule(Re(Alt(<<Lit(<<"f","e","m","a","l","e">>), Lit(<<"m","a","l","e">>)>>), TRUE), "GENDER") >>

allPatterns ==
  tumorPatterns \o receptorPatterns \o stagePatterns \o treatmentPatterns
  \o demoPatterns

\* the while loop over pattern.regex.exec(text) of one rule: every match, left
\* to right, each search resuming at the end of the previous match
RECURSIVE ScanRule(_, _, _)
ScanRule(rule, t, lastIndex) ==
  LET m == exec(rule.regex, t, lastIndex)
  IN IF m.index = NoMatch THEN <<>>
     ELSE <<[type |-> rule.type, start |-> m.index, end |-> m.end]>>
          \o ScanRule(rule, t, m.end)

\* ScanRules with the matches of all rules sorted by their place in the text
RECURSIVE MatchesFrom(_, _, _)
MatchesFrom(rules, t, r) ==
  IF r > Len(rules) THEN <<>>
  ELSE ScanRule(rules[r], t, 0) \o MatchesFrom(rules, t, r + 1)
ScanRulesByPosition(rules, t, r) ==
  SortSeq(MatchesFrom(rules, t, r), LAMBDA a, b : a.start < b.start)

\* allPatterns.forEach: the matches of all rules, in rule-table order
RECURSIVE ScanRules(_, _, _)
ScanRules(rules, t, r) ==
  IF r > Len(rules) THEN <<>>
  ELSE ScanRule(rules[r], t, 0) \o ScanRules(rules, t, r + 1)

(***************************************************************************)
(* Numbers.  A real x is the integer x * Scale; the floating-point error   *)
(* of the code's double arithmetic is far below 1 / Scale and is not       *)
(* modelled.                                                               *)
(***************************************************************************)
Scale == 10 ^ 6
\* 0.75 of  0.75 + Math.random() * 0.20
BaseConfidence == 750000
\* 0.20 of  0.75 + Math.random() * 0.20
JitterWidth == 200000
\* 0.99 of  Math.min(0.99, baseConfidence + modelBonus)
MaxConfidence == 990000
\* threshold = 0.5, the default parameter value
DefaultThreshold == 500000

Min(a, b) == IF a <= b THEN a ELSE b
Max(a, b) == IF a >= b THEN a ELSE b

\* Number(x.toFixed(4)) for x >= 0: the nearest multiple of 0.0001
toFixed4(x) == ((x + Scale \div 20000) \div (Scale \div 10000)) * (Scale \div 10000)

\* Number((sum / n).toFixed(4)) for sum >= 0, n > 0
toFixed4Ratio(sum, n) ==
  ((2 * sum + n * (Scale \div 10000)) \div (2 * n * (Scale \div 10000)))
  * (Scale \div 10000)

\* an argument or request field that is absent (undefined) or holds value v
None == <<>>
Some(v) == <<v>>
\* a text or question that is absent: not a sequence of characters
undefined == <<"undefined">>
\* String(x), the coercion RegExp.prototype.exec applies to its argument
toStringJS(x) ==
  IF x = undefined THEN <<"u","n","d","e","f","i","n","e","d">> ELSE x

(***************************************************************************)
(* Inputs.                                                                 *)
(***************************************************************************)
Fragments == <<
  <<"2",".","3"," ","c","m","."," ">>,
  <<"H","E","R","2","-","p","o","s","i","t","i","v","e">>,
  <<"S","t","a","g","e"," ","I","I","!"," ">>,
  <<"c","h","e","m","o","t","h","e","r","a","p","y">>,
  <<"5","m","m","?">>,
  <<"9","-","y","e","a","r","-","o","l","d"," ","f","e","m","a","l","e">> >>

\* every concatenation of fragments of at most MaxTextLen characters
RECURSIVE TextsFrom(_)
TextsFrom(prefix) ==
  {prefix} \cup
  UNION {TextsFrom(prefix \o Fragments[f]) :
           f \in {g \in 1..Len(Fragments) : Len(prefix) + Len(Fragments[g]) <= MaxTextLen}}
Texts == TextsFrom(<<>>)

\* index - 50
ContextBefore == 50
\* index + 100
ContextAfter == 100
\* filler words without any entity
Filler(n) == [i \in 1..n |-> IF i % 5 = 0 THEN " " ELSE "x"]
\* a text inside a long document, further than the context window from both ends
Embedded(t) == Filler(ContextBefore + 1) \o t \o Filler(ContextAfter + 1)
LongTexts == {Embedded(t) : t \in Texts}

\* texts of n one-letter sentences, ended in turn by "! ", "?" and ". "
SentenceEnds == << <<"!"," ">>, <<"?">>, <<"."," ">> >>
RECURSIVE Paragraph(_)
Paragraph(n) ==
  IF n = 0 THEN <<>>
  ELSE Paragraph(n - 1) \o <<LowerCase[n]>> \o SentenceEnds[(n % 3) + 1]
Paragraphs == {Paragraph(n) : n \in 0..MaxSentences}

Questions == {
  <<"T","u","m","o","r"," ","S","I","Z","E","?">>, <<"h","o","w"," ","l","a","r","g","e">>, <<"r","e","c","e","p","t","o","r">>, <<"H","E","R","2","?">>, <<"S","t","a","g","e","?">>, <<"t","r","e","a","t","m","e","n","t">>,
  <<"t","h","e","r","a","p","y">>, <<"s","i","z","e",","," ","s","t","a","g","e">>, <<"l","a","r","g","e"," ","s","t","a","g","e"," ","t","h","e","r","a","p","y">>, <<"w","h","y">>, <<>> }

ModelNames == {"BioBERT", "ClinicalBERT", "PubMedBERT", "DistilBERT", "undefined"}
Thresholds ==
  {None, Some(750000), Some(800040), Some(950000), Some(1500000), Some(0 - 100000)}
\* outcomes of Math.random(), in [0, 1)
RandomDraws == {0, 250220, 999995}
Streams == [1..MaxDraws -> RandomDraws]

(***************************************************************************)
(* extractEntities                                                         *)
(***************************************************************************)
\* the bonus table with the entries of BioBERT and ClinicalBERT exchanged
modelBonusExchanged(model) ==
  CASE model = "BioBERT" -> 80000
    [] model = "ClinicalBERT" -> 50000
    [] model = "PubMedBERT" -> 30000
    [] OTHER -> 0

\* { BioBERT: 0.05, ClinicalBERT: 0.08, PubMedBERT: 0.03 }[model] || 0
modelBonus(model) ==
  CASE model = "BioBERT" -> 50000
    [] model = "ClinicalBERT" -> 80000
    [] model = "PubMedBERT" -> 30000
    [] OTHER -> 0

\* matchConfidence with the random part centred on the base: 0.65 to 0.85
matchConfidenceCentred(r, model) ==
  LET baseConfidence == BaseConfidence - JitterWidth \div 2
                          + r \div (Scale \div JitterWidth)
  IN Min(MaxConfidence, baseConfidence + modelBonus(model))

\* the confidence computed for a match from the Math.random() outcome r
matchConfidence(r, model) ==
  LET baseConfidence == BaseConfidence + r \div (Scale \div JitterWidth)
  IN Min(MaxConfidence, baseConfidence + modelBonus(model))

\* the k-th outcome of Math.random() during a request (k = 1, 2, ...), for the
\* cycle rnd of outcomes chosen for the request
Draw(rnd, k) == rnd[((k - 1) % Len(rnd)) + 1]

\* entityOf with the end offset taken as that of the last character matched
entityOfEndInclusive(t, m, confidence) ==
  [text |-> substring(t, m.start, m.end), type |-> m.type,
   confidence |-> toFixed4(confidence), start |-> m.start, end |-> m.end - 1]

\* the entity pushed for match m, were it kept
entityOf(t, m, confidence) ==
  [text |-> substring(t, m.start, m.end), type |-> m.type,
   confidence |-> toFixed4(confidence), start |-> m.start, end |-> m.end]

\* keeps with the comparison turned around
keepsBelow(confidence, threshold) == confidence <= threshold

\* if (confidence >= threshold)
keeps(confidence, threshold) == confidence >= threshold

\* extractEntities dropping a match whose span overlaps the span of a match
\* found before it
extractFromDeduplicating(t, matches, model, threshold, rnd, used) ==
  With(<<matches, used>>, LAMBDA a :
    LET thr == IF threshold = None THEN DefaultThreshold ELSE threshold[1]
        conf(i) == matchConfidence(Draw(rnd, a[2] + i), model)
        kept == SelectSeq([i \in 1..Len(a[1]) |-> i],
                          LAMBDA i :
                            /\ keeps(conf(i), thr)
                            /\ \A j \in 1..(i - 1) :
                                 \/ a[1][j].end <= a[1][i].start
                                 \/ a[1][i].end <= a[1][j].start)
    IN [j \in 1..Len(kept) |-> entityOf(t, a[1][kept[j]], conf(kept[j]))])

\* extractEntities(text, model, threshold = 0.5), with `matches` the matches of
\* all rules on String(text) in scan order, and `used` outcomes of
\* Math.random() consumed before the call
extractFrom(t, matches, model, threshold, rnd, used) ==
  With(<<matches, used>>, LAMBDA a :
    LET thr == IF threshold = None THEN DefaultThreshold ELSE threshold[1]
        conf(i) == matchConfidence(Draw(rnd, a[2] + i), model)
        kept == SelectSeq([i \in 1..Len(a[1]) |-> i],
                          LAMBDA i : keeps(conf(i), thr))
    IN [j \in 1..Len(kept) |-> entityOf(t, a[1][kept[j]], conf(kept[j]))])

\* the matches of all rules on each request text, tabulated
scanOf == [t \in Texts \cup {toStringJS(undefined)} |-> ScanRules(allPatterns, t, 1)]
matchesOf(t) == IF t \in DOMAIN scanOf THEN scanOf[t] ELSE ScanRules(allPatterns, t, 1)

\* extractEntities with a threshold outside [0, 1] replaced by the default
extractEntitiesValidating(text, model, threshold, rnd, used) ==
  LET t == toStringJS(text)
      valid == IF threshold # None /\ (threshold[1] < 0 \/ threshold[1] > Scale)
               THEN None ELSE threshold
  IN extractFrom(t, matchesOf(t), model, valid, rnd, used)

extractEntities(text, model, threshold, rnd, used) ==
  LET t == toStringJS(text)
  IN extractFrom(t, matchesOf(t), model, threshold, rnd, used)

\* number of Math.random() calls of one extractEntities call: one per match
drawsOf(text) == Len(matchesOf(toStringJS(text)))

\* entities.reduce((sum, e) => sum + e.confidence, 0)
RECURSIVE sumConfidence(_, _)
sumConfidence(entities, n) ==
  IF n = 0 THEN 0 ELSE sumConfidence(entities, n - 1) + entities[n].confidence

\* entityTypes without the Set: entities.map(e => e.type)
entityTypesWithRepeats(entities) == [k \in 1..Len(entities) |-> entities[k].type]

\* [...new Set(entities.map(e => e.type))]: distinct types, first occurrence first
entityTypes(entities) ==
  LET first == SelectSeq([i \in 1..Len(entities) |-> i],
                 LAMBDA i : \A j \in 1..(i - 1) : entities[j].type # entities[i].type)
  IN [k \in 1..Len(first) |-> entities[first[k]].type]

\* 0 / 0 in IEEE arithmetic: not a number, here a value that is no confidence
NaN == 0 - Scale
\* nerResult without the test entities.length > 0 before the division
nerResultUnguarded(entities) ==
  With(entities, LAMBDA es :
    [entities |-> es,
     entityCount |-> Len(es),
     avgConfidence |-> IF Len(es) = 0 THEN NaN
                       ELSE toFixed4Ratio(sumConfidence(es, Len(es)), Len(es)),
     entityTypes |-> entityTypes(es)])

\* the result object built around a list of entities (case 'ner', compareModels)
nerResult(entities) ==
  With(entities, LAMBDA es :
    [entities |-> es,
     entityCount |-> Len(es),
     avgConfidence |-> IF Len(es) > 0
                       THEN toFixed4Ratio(sumConfidence(es, Len(es)), Len(es))
                       ELSE 0,
     entityTypes |-> entityTypes(es)])

(***************************************************************************)
(* String helpers of summarizeText and answerQuestion.                     *)
(***************************************************************************)
\* an exception thrown by an operation
TypeError(message) == [exception |-> "TypeError", message |-> message]
IsException(r) == "exception" \in DOMAIN r

\* s.split(/[Sep]+/): the pieces between the maximal runs of Sep characters,
\* with an empty piece before a leading and after a trailing run
split(s, Sep) ==
  LET n == Len(s)
      startsAt(i) == s[i] \notin Sep /\ (i = 1 \/ s[i - 1] \in Sep)
      endOf(i) == CHOOSE j \in i..n :
                    /\ \A k \in i..j : s[k] \notin Sep
                    /\ (j = n \/ s[j + 1] \in Sep)
      starts == SelectSeq([i \in 1..n |-> i], startsAt)
      pieces == [k \in 1..Len(starts) |-> SubSeq(s, starts[k], endOf(starts[k]))]
  IN IF n = 0 THEN << <<>> >>
     ELSE (IF s[1] \in Sep THEN << <<>> >> ELSE <<>>) \o pieces
          \o (IF s[n] \in Sep THEN << <<>> >> ELSE <<>>)

\* String.prototype.trim
trim(s) ==
  LET n == Len(s)
      leading == Cardinality({i \in 1..n : \A j \in 1..i : s[j] \in Space})
      trailing == Cardinality({i \in 1..n : \A j \in i..n : s[n + i - j] \in Space})
  IN IF leading = n THEN <<>> ELSE SubSeq(s, leading + 1, n - trailing)

\* Array.prototype.join
RECURSIVE join(_, _)
join(pieces, sep) ==
  IF Len(pieces) = 0 THEN <<>>
  ELSE IF Len(pieces) = 1 THEN pieces[1]
  ELSE pieces[1] \o sep \o join(Tail(pieces), sep)

\* slice0 as a loop over n places: the places past the end hold nothing, and
\* join writes nothing for them
slice0Uncapped(a, n) == [i \in 1..n |-> IF i <= Len(a) THEN a[i] ELSE <<>>]

\* Array.prototype.slice(0, n)
slice0(a, n) == SubSeq(a, 1, Min(n, Len(a)))

\* String.prototype.indexOf: offset of the first occurrence of w in s, or
\* NoMatch
indexOf(s, w) ==
  LET at == {i \in 0..(Len(s) - Len(w)) : SubSeq(s, i + 1, i + Len(w)) = w}
  IN IF at = {} THEN NoMatch ELSE CHOOSE i \in at : \A j \in at : i <= j

\* String.prototype.includes
includes(s, w) == indexOf(s, w) # NoMatch

(***************************************************************************)
(* summarizeText                                                           *)
(***************************************************************************)
\* ((1 - summaryWords / originalWords) * 100).toFixed(1), in tenths of a
\* percent, rounded half away from zero
compressionTenths(summaryWords, originalWords) ==
  LET num == 1000 * (originalWords - summaryWords)
      mag == IF num >= 0 THEN num ELSE 0 - num
      q == (2 * mag + originalWords) \div (2 * originalWords)
  IN IF num >= 0 THEN q ELSE 0 - q

\* the decimal digits of n >= 0
RECURSIVE digitsOf(_)
digitsOf(n) ==
  LET d == <<"0","1","2","3","4","5","6","7","8","9">>[(n % 10) + 1]
  IN IF n < 10 THEN <<d>> ELSE digitsOf(n \div 10) \o <<d>>

\* `${x.toFixed(1)}%` for x given in tenths
formatPercent(tenths) ==
  LET mag == IF tenths >= 0 THEN tenths ELSE 0 - tenths
  IN (IF tenths < 0 THEN <<"-">> ELSE <<>>)
     \o digitsOf(mag \div 10) \o <<".">> \o digitsOf(mag % 10) \o <<"%">>

\* summaryCount without the floor of two sentences
summaryCountWithoutFloor(n) == (n * 3) \div 10

\* Math.max(2, Math.floor(sentences.length * 0.3))
summaryCount(n) == Max(2, (n * 3) \div 10)

\* summarizeText returning the model beside the six fields
summarizeTextEchoingModel(text, model) ==
  IF text = undefined
  THEN TypeError("Cannot read properties of undefined (reading 'split')")
  ELSE
    LET sentences == SelectSeq(split(text, {".", "!", "?"}),
                               LAMBDA s : Len(trim(s)) > 0)
        summaryLength == summaryCount(Len(sentences))
        summary == join(slice0(sentences, summaryLength), <<"."," ">>) \o <<".">>
        originalWords == Len(split(text, Space))
        summaryWords == Len(split(summary, Space))
    IN [summary |-> summary,
        originalLength |-> Len(text),
        summaryLength |-> Len(summary),
        originalWords |-> originalWords,
        summaryWords |-> summaryWords,
        compressionRatio |->
          formatPercent(compressionTenths(summaryWords, originalWords)),
        model |-> model]

summarizeText(text, model) ==
  IF text = undefined
  THEN TypeError("Cannot read properties of undefined (reading 'split')")
  ELSE
    LET sentences == SelectSeq(split(text, {".", "!", "?"}),
                               LAMBDA s : Len(trim(s)) > 0)
        summaryLength == summaryCount(Len(sentences))
        summary == join(slice0(sentences, summaryLength), <<"."," ">>) \o <<".">>
        originalWords == Len(split(text, Space))
        summaryWords == Len(split(summary, Space))
    IN [summary |-> summary,
        originalLength |-> Len(text),
        summaryLength |-> Len(summary),
        originalWords |-> originalWords,
        summaryWords |-> summaryWords,
        compressionRatio |->
          formatPercent(compressionTenths(summaryWords, originalWords))]

(***************************************************************************)
(* answerQuestion                                                          *)
(***************************************************************************)
\* /\d+\.?\d*\s*(cm|mm)/i
sizeRegex ==
  Re(Plus(Digit) \o Opt({"."}) \o Star(Digit) \o Star(Space)
     \o Alt(<<Lit(<<"c","m">>), Lit(<<"m","m">>)>>), TRUE)
\* /(ER|PR|HER2)[\s-](positive|negative|\+|-)/i
receptorRegex ==
  Re(Alt(<<Lit(<<"E","R">>), Lit(<<"P","R">>), Lit(<<"H","E","R","2">>)>>) \o One(DashOrSpace)
     \o Alt(<<Lit(<<"p","o","s","i","t","i","v","e">>), Lit(<<"n","e","g","a","t","i","v","e">>), Lit(<<"+">>), Lit(<<"-">>)>>), TRUE)
\* /stage\s+(I{1,3}|IV|[1-4])[ABC]?/i
stageRegex ==
  Re(Lit(<<"s","t","a","g","e">>) \o Plus(Space)
     \o Alt(<< <<Rep({"I"}, 1, 3)>>, Lit(<<"I","V">>), One({"1","2","3","4"}) >>)
     \o Opt({"A","B","C"}), TRUE)
\* /(chemotherapy|radiation therapy|mastectomy|lumpectomy)/i
treatmentRegex ==
  Re(Alt(<<Lit(<<"c","h","e","m","o","t","h","e","r","a","p","y">>), Lit(<<"r","a","d","i","a","t","i","o","n"," ","t","h","e","r","a","p","y">>), Lit(<<"m","a","s","t","e","c","t","o","m","y">>),
           Lit(<<"l","u","m","p","e","c","t","o","m","y">>)>>), TRUE)

\* the four keyword groups in the order of their if statements, each with its
\* keywords, its pattern and its fixed confidence
lookups == <<
  [group |-> "size", keywords |-> {<<"s","i","z","e">>, <<"l","a","r","g","e">>},
   regex |-> sizeRegex, confidence |-> 920000],
  [group |-> "receptor", keywords |-> {<<"r","e","c","e","p","t","o","r">>, <<"e","r">>, <<"h","e","r","2">>},
   regex |-> receptorRegex, confidence |-> 890000],
  [group |-> "stage", keywords |-> {<<"s","t","a","g","e">>},
   regex |-> stageRegex, confidence |-> 870000],
  [group |-> "treatment", keywords |-> {<<"t","r","e","a","t","m","e","n","t">>, <<"t","h","e","r","a","p","y">>},
   regex |-> treatmentRegex, confidence |-> 850000] >>

\* 'Unable to find answer in the provided text.'
UnableToFind == <<"U","n","a","b","l","e"," ","t","o"," ","f","i","n","d"," ","a","n","s","w","e","r"," ","i","n"," ","t","h","e"," ","p","r","o","v","i","d","e","d"," ","t","e","x","t",".">>
\* text.substring(0, 150)
FallbackLength == 150

\* text.match(regex) for the patterns of lookups 1..k
RECURSIVE firstMatches(_, _)
firstMatches(text, k) ==
  IF k = 0 THEN <<>>
  ELSE Append(firstMatches(text, k - 1), exec(lookups[k].regex, text, 0))
\* the same for each request text, tabulated
firstMatchesOf == [t \in Texts \cup LongTexts |-> firstMatches(t, Len(lookups))]
match(text, k) ==
  IF text \in DOMAIN firstMatchesOf THEN firstMatchesOf[text][k]
  ELSE exec(lookups[k].regex, text, 0)

\* asks for a lookup that runs whatever the question says
asksAlways(lowerQuestion, lookup) == TRUE

\* the condition of the if statement of a lookup
asks(lowerQuestion, lookup) ==
  \E w \in lookup.keywords : includes(lowerQuestion, w)

\* lookupStep with a miss putting the defaults back
lookupStepResetting(text, lowerQuestion, k, before) ==
  IF asks(lowerQuestion, lookups[k])
  THEN With(match(text, k), LAMBDA m :
         IF m.index # NoMatch
         THEN With(substring(text, m.index, m.end), LAMBDA found :
                With(indexOf(text, found), LAMBDA index :
                  [answer |-> found,
                   confidence |-> lookups[k].confidence,
                   context |-> substring(text, Max(0, index - ContextBefore),
                                         Min(Len(text), index + ContextAfter))]))
         ELSE [answer |-> UnableToFind, confidence |-> 0, context |-> <<>>])
  ELSE before

\* lookupStep taking the answer from lowerText instead of text
lookupStepAnsweringLowerCase(text, lowerQuestion, k, before) ==
  IF asks(lowerQuestion, lookups[k])
  THEN With(match(text, k), LAMBDA m :
         IF m.index # NoMatch
         THEN With(substring(text, m.index, m.end), LAMBDA found :
                With(indexOf(text, found), LAMBDA index :
                  [answer |-> toLowerCase(found),
                   confidence |-> lookups[k].confidence,
                   context |-> substring(text, Max(0, index - ContextBefore),
                                         Min(Len(text), index + ContextAfter))]))
         ELSE before)
  ELSE before

\* one if statement: (answer, confidence, context) after it, given them before
lookupStep(text, lowerQuestion, k, before) ==
  IF asks(lowerQuestion, lookups[k])
  THEN With(match(text, k), LAMBDA m :
         IF m.index # NoMatch
         THEN With(substring(text, m.index, m.end), LAMBDA found :
                With(indexOf(text, found), LAMBDA index :
                  [answer |-> found,
                   confidence |-> lookups[k].confidence,
                   context |-> substring(text, Max(0, index - ContextBefore),
                                         Min(Len(text), index + ContextAfter))]))
         ELSE before)
  ELSE before

\* the four if statements in order
RECURSIVE lookupsThrough(_, _, _)
lookupsThrough(text, lowerQuestion, k) ==
  IF k = 0 THEN [answer |-> UnableToFind, confidence |-> 0, context |-> <<>>]
  ELSE lookupStep(text, lowerQuestion, k, lookupsThrough(text, lowerQuestion, k - 1))

\* answerQuestion looking for the keywords in the question as typed
answerQuestionCaseSensitive(text, question, model) ==
  IF text = undefined
  THEN TypeError("Cannot read properties of undefined (reading 'toLowerCase')")
  ELSE IF question = undefined
  THEN TypeError("Cannot read properties of undefined (reading 'toLowerCase')")
  ELSE
    With(lookupsThrough(text, question, Len(lookups)), LAMBDA last :
      [question |-> question,
       answer |-> last.answer,
       confidence |-> toFixed4(last.confidence),
       context |-> With(trim(last.context), LAMBDA trimmed :
                     IF Len(trimmed) > 0 THEN trimmed
                     ELSE slice0(text, FallbackLength) \o <<".",".",".">>),
       model |-> model])

answerQuestion(text, question, model) ==
  IF text = undefined
  THEN TypeError("Cannot read properties of undefined (reading 'toLowerCase')")
  ELSE IF question = undefined
  THEN TypeError("Cannot read properties of undefined (reading 'toLowerCase')")
  ELSE
    With(lookupsThrough(text, toLowerCase(question), Len(lookups)), LAMBDA last :
      [question |-> question,
       answer |-> last.answer,
       confidence |-> toFixed4(last.confidence),
       context |-> With(trim(last.context), LAMBDA trimmed :
                     IF Len(trimmed) > 0 THEN trimmed
                     ELSE slice0(text, FallbackLength) \o <<".",".",".">>),
       model |-> model])

(***************************************************************************)
(* compareModels                                                           *)
(***************************************************************************)
\* 0.5 of  extractEntities(text, model, 0.5)
ComparisonThreshold == 500000

\* models with a fourth variant compared
modelsWithDistilBERT == <<"BioBERT", "ClinicalBERT", "PubMedBERT", "DistilBERT">>
models == <<"BioBERT", "ClinicalBERT", "PubMedBERT">>

\* best.entityCount * best.avgConfidence
score(r) == r.entityCount * r.avgConfidence

\* bestOf with >= for >: the last record of maximal score wins
RECURSIVE bestOfLastMaximal(_, _)
bestOfLastMaximal(results, n) ==
  IF n = 1 THEN results[1]
  ELSE LET best == bestOfLastMaximal(results, n - 1)
           current == results[n]
       IN IF score(current) >= score(best) THEN current ELSE best

\* results.reduce((best, current) => currentScore > bestScore ? current : best)
RECURSIVE bestOf(_, _)
bestOf(results, n) ==
  IF n = 1 THEN results[1]
  ELSE LET best == bestOf(results, n - 1)
           current == results[n]
       IN IF score(current) > score(best) THEN current ELSE best

\* compareModels calling extractEntities with a threshold some confidences
\* do not reach
compareModelsAtHighThreshold(text, rnd) ==
  With([i \in 1..Len(models) |->
          [model |-> models[i]] @@
          nerResult(extractEntities(text, models[i], Some(800040),
                                    rnd, (i - 1) * drawsOf(text)))],
       LAMBDA results :
         With(bestOf(results, Len(results)), LAMBDA bestModel :
           [models |-> results,
            recommendation |->
              [model |-> bestModel.model,
               reason |-> [entityCount |-> bestModel.entityCount,
                           percent |-> formatPercent(
                             (bestModel.avgConfidence * 1000 + Scale \div 2)
                             \div Scale)]]]))

compareModels(text, rnd) ==
  With([i \in 1..Len(models) |->
          [model |-> models[i]] @@
          nerResult(extractEntities(text, models[i], Some(ComparisonThreshold),
                                    rnd, (i - 1) * drawsOf(text)))],
       LAMBDA results :
         With(bestOf(results, Len(results)), LAMBDA bestModel :
           [models |-> results,
            recommendation |->
              [model |-> bestModel.model,
               reason |-> [entityCount |-> bestModel.entityCount,
                           percent |-> formatPercent(
                             (bestModel.avgConfidence * 1000 + Scale \div 2)
                             \div Scale)]]]))

(***************************************************************************)
(* Deno.serve: the request handler.                                        *)
(***************************************************************************)
\* throw new Error('Invalid analysis type')
InvalidType == [exception |-> "Error", message |-> "Invalid analysis type"]
\* the exception of  await req.json()  on a body that is not JSON
BadJson == [exception |-> "SyntaxError", message |-> "Unexpected token in JSON"]

\* dispatch for a switch without its default case: result stays unassigned
dispatchWithoutDefault(req, rnd) ==
  CASE req.type = "ner" ->
         [result |-> nerResult(extractEntities(req.text, req.model,
                                               req.confidenceThreshold, rnd, 0)),
          ran |-> <<"extractEntities">>,
          drawn |-> drawsOf(req.text)]
    [] req.type = "summarization" ->
         [result |-> summarizeText(req.text, req.model),
          ran |-> <<"summarizeText">>, drawn |-> 0]
    [] req.type = "qa" ->
         [result |-> answerQuestion(req.text, req.question, req.model),
          ran |-> <<"answerQuestion">>, drawn |-> 0]
    [] req.type = "comparison" ->
         [result |-> compareModels(req.text, rnd),
          ran |-> <<"compareModels">>,
          drawn |-> Len(models) * drawsOf(req.text)]
    [] OTHER ->
         [result |-> [unassigned |-> TRUE], ran |-> <<>>, drawn |-> 0]

\* the switch on type inside the try block: the value assigned to result, or
\* the exception thrown, with the operations called and the number of
\* Math.random() calls made
dispatch(req, rnd) ==
  CASE req.type = "ner" ->
         [result |-> nerResult(extractEntities(req.text, req.model,
                                               req.confidenceThreshold, rnd, 0)),
          ran |-> <<"extractEntities">>,
          drawn |-> drawsOf(req.text)]
    [] req.type = "summarization" ->
         [result |-> summarizeText(req.text, req.model),
          ran |-> <<"summarizeText">>, drawn |-> 0]
    [] req.type = "qa" ->
         [result |-> answerQuestion(req.text, req.question, req.model),
          ran |-> <<"answerQuestion">>, drawn |-> 0]
    [] req.type = "comparison" ->
         [result |-> compareModels(req.text, rnd),
          ran |-> <<"compareModels">>,
          drawn |-> Len(models) * drawsOf(req.text)]
    [] OTHER ->
         [result |-> InvalidType, ran |-> <<>>, drawn |-> 0]

\* respond with the catch block leaving the status at its default
respondWithoutStatus(result) ==
  IF IsException(result)
  THEN [status |-> 200, body |-> [success |-> FALSE, error |-> result.message]]
  ELSE [status |-> 200, body |-> [success |-> TRUE, data |-> result]]

\* the Response of the try block (status 200 by default) or of the catch block
respond(result) ==
  IF IsException(result)
  THEN [status |-> 400, body |-> [success |-> FALSE, error |-> result.message]]
  ELSE [status |-> 200, body |-> [success |-> TRUE, data |-> result]]

\* the whole handler
handler(req, rnd) ==
  IF req.method = "OPTIONS"
  THEN [response |-> [status |-> 200, body |-> None], ran |-> <<>>, drawn |-> 0]
  ELSE IF ~req.wellFormed
  THEN [response |-> respond(BadJson), ran |-> <<>>, drawn |-> 0]
  ELSE With(dispatch(req, rnd), LAMBDA d :
         [response |-> respond(d.result), ran |-> d.ran, drawn |-> d.drawn])

Request(method, wellFormed, type, text, model, question, confidenceThreshold) ==
  [method |-> method, wellFormed |-> wellFormed, type |-> type, text |-> text,
   model |-> model, question |-> question,
   confidenceThreshold |-> confidenceThreshold]
NoRequest == Request("none", TRUE, "undefined", undefined, "undefined", undefined, None)

\* handlerAfter in which the entities array outlives the call: a later
\* extraction appends to what the earlier one pushed
handlerAfterKeepingEntities(req, rnd, before) ==
  IF req.method = "POST" /\ req.wellFormed /\ req.type = "ner"
  THEN [handler(req, rnd) EXCEPT
          !.response = respond(nerResult(
             before.body.data.entities \o
             extractEntities(req.text, req.model, req.confidenceThreshold, rnd, 0)))]
  ELSE handler(req, rnd)

\* the handler invoked after the same isolate answered an earlier request
\* with the response `before`: the module holds no binding that a call
\* changes (corsHeaders is only read; entities and the regular expressions
\* are created inside extractEntities), so nothing of `before` is read
handlerAfter(req, rnd, before) == handler(req, rnd)

(***************************************************************************)
(* State: the request being served, the responses sent for it, the          *)
(* operations the handler called and the Math.random() outcomes it drew;   *)
(* and the responses sent when the same request was served before.         *)
(* For the loop of extractEntities taken step by step: the text scanned,   *)
(* the place in allPatterns of the forEach callback, the lastIndex of its  *)
(* regex, and the matches the while loop has gone through.                 *)
(* For the BatchProcessing component: its React state (files, processing,  *)
(* results, progress, error), the locals of the running handleBatchProcess *)
(* (batchResults, the loop index i, the text read, batchRecord), the await *)
(* it is suspended at, and the number of rows it has inserted into         *)
(* clinical_analyses.                                                      *)
(***************************************************************************)
VARIABLES request, responses, ran, draws, earlier,
          scanText, patternIndex, regexLastIndex, matched,
          files, processing, resultsState, progress, error,
          batchResults, fileIndex, fileText, batchRecord, pc, stored
serverVars == <<request, responses, ran, draws, earlier>>
scanVars == <<scanText, patternIndex, regexLastIndex, matched>>
batchVars == <<files, processing, resultsState, progress, error,
               batchResults, fileIndex, fileText, batchRecord, pc, stored>>
vars == <<serverVars, scanVars, batchVars>>

Init ==
  /\ request = NoRequest
  /\ responses = <<>>
  /\ ran = <<>>
  /\ draws = <<>>
  /\ earlier = <<>>
  /\ scanText = <<>>
  /\ patternIndex = 0
  /\ regexLastIndex = 0
  /\ matched = <<>>
  /\ files = <<>>
  /\ processing = FALSE
  /\ resultsState = <<>>
  /\ progress = 0
  /\ error = ""
  /\ batchResults = <<>>
  /\ fileIndex = 0
  /\ fileText = <<>>
  /\ batchRecord = None
  /\ pc = "idle"
  /\ stored = 0

\* a request arrives while none is being served and the handler runs on it
Serve(req, rnd) ==
  \E h \in {handler(req, rnd)} :
    /\ request' = req
    /\ responses' = <<h.response>>
    /\ ran' = h.ran
    /\ draws' = [k \in 1..h.drawn |-> Draw(rnd, k)]
    /\ earlier' = <<>>
    /\ UNCHANGED <<scanVars, batchVars>>

AnyStream == CHOOSE rnd \in Streams : TRUE

ServeOptions ==
  /\ request = NoRequest
  /\ Serve(Request("OPTIONS", TRUE, "undefined", undefined, "undefined", undefined, None),
        AnyStream)

ServeBadJson ==
  /\ request = NoRequest
  /\ Serve(Request("POST", FALSE, "undefined", undefined, "undefined", undefined, None),
        AnyStream)

ServeNer ==
  /\ request = NoRequest
  /\ \E text \in Texts \cup {undefined}, model \in ModelNames,
     threshold \in Thresholds, rnd \in Streams :
    Serve(Request("POST", TRUE, "ner", text, model, undefined, threshold), rnd)

ServeSummarization ==
  /\ request = NoRequest
  /\ \E text \in Texts \cup Paragraphs \cup {undefined}, model \in ModelNames :
    Serve(Request("POST", TRUE, "summarization", text, model, undefined, None),
          AnyStream)

ServeQa ==
  /\ request = NoRequest
  /\ \E text \in Texts \cup LongTexts \cup {undefined},
     question \in Questions \cup {undefined}, model \in {"BioBERT", "undefined"} :
    Serve(Request("POST", TRUE, "qa", text, model, question, None), AnyStream)

ServeComparison ==
  /\ request = NoRequest
  /\ \E text \in Texts \cup {undefined}, rnd \in Streams :
    Serve(Request("POST", TRUE, "comparison", text, "undefined", undefined, None), rnd)

ServeInvalidType ==
  /\ request = NoRequest
  /\ \E type \in {"undefined", "sentiment", "NER"},
     text \in {undefined, Fragments[1]}, model \in {"BioBERT", "undefined"} :
    Serve(Request("POST", TRUE, type, text, model, undefined, None), AnyStream)

\* the request just answered arrives again and Math.random() repeats the
\* outcomes it had: the handler runs once more in the same isolate
ServeAgain ==
  /\ request.method = "POST"
  /\ Len(earlier) < MaxRepeats
  /\ \E h \in {handlerAfter(request, draws, responses[1])} :
       /\ responses' = <<h.response>>
       /\ ran' = h.ran
       /\ earlier' = earlier \o responses
       /\ UNCHANGED <<request, draws>>
       /\ UNCHANGED <<scanVars, batchVars>>

\* the Response has been returned: nothing of the request outlives it
Return ==
  /\ request # NoRequest
  /\ request' = NoRequest
  /\ responses' = <<>>
  /\ ran' = <<>>
  /\ draws' = <<>>
  /\ earlier' = <<>>
  /\ UNCHANGED <<scanVars, batchVars>>

Next ==
  \/ ServeOptions
  \/ ServeBadJson
  \/ ServeNer
  \/ ServeSummarization
  \/ ServeQa
  \/ ServeComparison
  \/ ServeInvalidType
  \/ ServeAgain
  \/ Return

Spec == Init /\ [][Next]_vars

(***************************************************************************)
(* The loop of extractEntities step by step: allPatterns.forEach runs, for *)
(* each pattern in turn, while ((match = pattern.regex.exec(text)) !==     *)
(* null); every regex carries the g flag, so exec searches from lastIndex  *)
(* and moves it.  The threshold test inside the loop does not touch the    *)
(* loop's state and is left to extractFrom.                                *)
(***************************************************************************)
\* where each pattern of the table matches in a text: for the r-th pattern and
\* offset p - 1 (0 to the length of the text), the end of its match there, or
\* NoMatch; tabulated for the request texts
MatchEnds(t) ==
  [r \in 1..Len(allPatterns) |->
     [p \in 1..(Len(t) + 1) |->
        MatchAt(t, allPatterns[r].regex.ci, allPatterns[r].regex.nodes, p - 1)]]
matchEndsOf == [t \in Texts \cup {toStringJS(undefined)} |-> MatchEnds(t)]

\* exec of the r-th pattern from lastIndex on a request text, as exec above
\* with the matches at each offset read from the table
execOf(t, r, lastIndex) ==
  LET ends == matchEndsOf[t][r]
      found == {p \in lastIndex..Len(t) : ends[p + 1] # NoMatch}
  IN IF found = {} THEN [index |-> NoMatch, end |-> NoMatch]
     ELSE LET first == CHOOSE p \in found : \A q \in found : p <= q
          IN [index |-> first, end |-> ends[first + 1]]

\* lastIndex after exec on a regex without the g flag: never moved
lastIndexAfterWithoutGlobalFlag(m) == 0

\* lastIndex after exec returned m: the end of the match, or 0 after null
lastIndexAfter(m) == IF m.index = NoMatch THEN 0 ELSE m.end

\* extractEntities is called on a text: forEach starts at the first pattern
ScanCall ==
  /\ patternIndex = 0
  /\ \E text \in Texts :
       /\ scanText' = text
       /\ patternIndex' = 1
       /\ regexLastIndex' = 0
       /\ matched' = <<>>
  /\ UNCHANGED <<serverVars, batchVars>>

\* exec finds a match: the loop body runs and the loop goes on
ScanMatch ==
  /\ patternIndex \in 1..Len(allPatterns)
  /\ \E m \in {execOf(scanText, patternIndex, regexLastIndex)} :
       /\ m.index # NoMatch
       /\ matched' = Append(matched, [rule |-> patternIndex,
                                      type |-> allPatterns[patternIndex].type,
                                      start |-> m.index, end |-> m.end])
       /\ regexLastIndex' = lastIndexAfter(m)
  /\ UNCHANGED <<scanText, patternIndex>>
  /\ UNCHANGED <<serverVars, batchVars>>

\* exec returns null: the while loop ends and forEach goes to the next pattern
ScanNull ==
  /\ patternIndex \in 1..Len(allPatterns)
  /\ \E m \in {execOf(scanText, patternIndex, regexLastIndex)} :
       /\ m.index = NoMatch
       /\ regexLastIndex' = lastIndexAfter(m)
  /\ patternIndex' = patternIndex + 1
  /\ UNCHANGED <<scanText, matched>>
  /\ UNCHANGED <<serverVars, batchVars>>

\* forEach is through: extractEntities returns
ScanReturn ==
  /\ patternIndex = Len(allPatterns) + 1
  /\ patternIndex' = 0
  /\ UNCHANGED <<scanText, regexLastIndex, matched>>
  /\ UNCHANGED <<serverVars, batchVars>>

NextScan ==
  \/ ScanCall
  \/ ScanMatch
  \/ ScanNull
  \/ ScanReturn

\* the loop is synchronous code: once called it keeps running
SpecScan ==
  Init /\ [][NextScan]_vars /\ WF_vars(ScanMatch \/ ScanNull \/ ScanReturn)

(***************************************************************************)
(* BatchProcessing: handleFileChange and handleBatchProcess.  The async    *)
(* function runs from one await to the next in one step; pc names the      *)
(* await it is suspended at.  The Supabase client resolves every query to  *)
(* {data, error} and does not reject.                                      *)
(***************************************************************************)
\* const [model, setModel] = useState('ClinicalBERT')
batchModel == "ClinicalBERT"

\* the files that can be selected: the i-th is named i.txt and holds a text,
\* or cannot be read any more when file.text() is called
FileContents == {Some(Fragments[2] \o Fragments[5]), None}
File(i, content) == [name |-> digitsOf(i) \o <<".","t","x","t">>, content |-> content]
Selections ==
  UNION {{[i \in 1..k |-> File(i, c[i])] : c \in [1..k -> FileContents]} :
           k \in 0..MaxFiles}

\* how a fetch of the edge function can end: answered by the handler,
\* answered with an error status before reaching it, or rejected
FetchOutcomes == {"answered", "unavailable", "rejected"}

\* performNER(text, model, confidenceThreshold)
performNER(text, model, confidenceThreshold, outcome, rnd) ==
  IF outcome = "rejected" THEN TypeError("Failed to fetch")
  ELSE IF outcome = "unavailable"
  THEN [exception |-> "Error", message |-> "NER analysis failed"]
  ELSE With(handler(Request("POST", TRUE, "ner", text, model, undefined,
                            Some(confidenceThreshold)), rnd).response,
            LAMBDA response :
              IF response.status # 200
              THEN [exception |-> "Error", message |-> "NER analysis failed"]
              ELSE response.body.data)

\* Math.round(((i + 1) / files.length) * 100)
progressAfter(i, length) == (2 * 100 * (i + 1) + length) \div (2 * length)

\* batchResults after the insert into clinical_analyses threw into the catch
\* block when the row was not inserted
recordsAfterThrowingInsert(records, file, inserted) ==
  IF inserted THEN records
  ELSE Append(records, [filename |-> file.name, success |-> FALSE,
                        error |-> "Failed to fetch"])

\* batchResults after  await supabase.from('clinical_analyses').insert(...):
\* the {error} it resolves to is not looked at
recordsAfterInsert(records, file, inserted) == records

\* handleFileChange: the file input is disabled while processing
handleFileChange ==
  /\ ~processing
  /\ pc \in {"idle", "done"}
  /\ \E selectedFiles \in Selections : files' = selectedFiles
  /\ resultsState' = <<>>
  /\ progress' = 0
  /\ pc' = "idle"
  /\ UNCHANGED <<processing, error, batchResults, fileIndex, fileText,
                 batchRecord, stored>>
  /\ UNCHANGED <<serverVars, scanVars>>

\* handleBatchProcess with no file selected
BatchProcessNoFiles ==
  /\ ~processing
  /\ pc \in {"idle", "done"}
  /\ Len(files) = 0
  /\ error' = "Please select files to process"
  /\ pc' = "done"
  /\ UNCHANGED <<files, processing, resultsState, progress, batchResults,
                 fileIndex, fileText, batchRecord, stored>>
  /\ UNCHANGED <<serverVars, scanVars>>

\* handleBatchProcess up to the insert into batch_analyses
BatchProcessStart ==
  /\ ~processing
  /\ pc \in {"idle", "done"}
  /\ Len(files) # 0
  /\ processing' = TRUE
  /\ error' = ""
  /\ batchResults' = <<>>
  /\ pc' = "batch_analyses.insert"
  /\ stored' = 0
  /\ UNCHANGED <<files, resultsState, progress, fileIndex, fileText,
                 batchRecord>>
  /\ UNCHANGED <<serverVars, scanVars>>

\* the insert into batch_analyses resolves, with the record or with null; the
\* loop starts and calls file.text() on the first file
BatchRecordInserted ==
  /\ pc = "batch_analyses.insert"
  /\ \E inserted \in BOOLEAN :
       batchRecord' = IF inserted THEN Some("id") ELSE None
  /\ fileIndex' = 0
  /\ pc' = "file.text"
  /\ UNCHANGED <<files, processing, resultsState, progress, error,
                 batchResults, fileText, stored>>
  /\ UNCHANGED <<serverVars, scanVars>>

\* handleBatchProcess returns with `records` the batchResults: setResults,
\* setProcessing(false), and its locals are no more
Finish(records) ==
  /\ resultsState' = records
  /\ processing' = FALSE
  /\ pc' = "done"
  /\ batchResults' = <<>>
  /\ fileIndex' = 0
  /\ fileText' = <<>>
  /\ batchRecord' = None

\* the end of one loop iteration after its try statement, with `records` the
\* batchResults it leaves: setProgress, i++, and either the next file.text(),
\* or the update of batch_analyses, or without a batchRecord the end of the
\* function
NextIteration(records) ==
  /\ progress' = progressAfter(fileIndex, Len(files))
  /\ IF fileIndex + 1 < Len(files)
     THEN /\ pc' = "file.text"
          /\ batchResults' = records
          /\ fileIndex' = fileIndex + 1
          /\ UNCHANGED <<resultsState, processing, fileText, batchRecord>>
     ELSE IF batchRecord # None
     THEN /\ pc' = "batch_analyses.update"
          /\ batchResults' = records
          /\ fileIndex' = fileIndex + 1
          /\ UNCHANGED <<resultsState, processing, fileText, batchRecord>>
     ELSE Finish(records)

\* file.text() resolves and performNER is called
FileTextRead ==
  /\ pc = "file.text"
  /\ files[fileIndex + 1].content # None
  /\ fileText' = files[fileIndex + 1].content[1]
  /\ pc' = "performNER"
  /\ UNCHANGED <<files, processing, resultsState, progress, error,
                 batchResults, fileIndex, batchRecord, stored>>
  /\ UNCHANGED <<serverVars, scanVars>>

\* file.text() rejects: the await is outside the try statement, so the
\* exception leaves handleBatchProcess
FileTextRejected ==
  /\ pc = "file.text"
  /\ files[fileIndex + 1].content = None
  /\ pc' = "rejected"
  /\ UNCHANGED <<files, processing, resultsState, progress, error,
                 batchResults, fileIndex, fileText, batchRecord, stored>>
  /\ UNCHANGED <<serverVars, scanVars>>

\* performNER resolves: the success record is pushed and the insert into
\* clinical_analyses is awaited
NerResolved ==
  /\ pc = "performNER"
  /\ \E result \in {performNER(fileText, batchModel, DefaultThreshold,
                                "answered", AnyStream)} :
       /\ ~IsException(result)
       /\ batchResults' =
            Append(batchResults,
                   [filename |-> files[fileIndex + 1].name, success |-> TRUE,
                    entityCount |-> result.entityCount,
                    avgConfidence |-> result.avgConfidence,
                    entities |-> result.entities])
  /\ pc' = "clinical_analyses.insert"
  /\ UNCHANGED <<files, processing, resultsState, progress, error,
                 fileIndex, fileText, batchRecord, stored>>
  /\ UNCHANGED <<serverVars, scanVars>>

\* performNER throws: the catch block pushes the failure record
NerThrew ==
  /\ pc = "performNER"
  /\ \E outcome \in FetchOutcomes :
       \E result \in {performNER(fileText, batchModel, DefaultThreshold,
                                  outcome, AnyStream)} :
         /\ IsException(result)
         /\ NextIteration(Append(batchResults,
                                 [filename |-> files[fileIndex + 1].name,
                                  success |-> FALSE,
                                  error |-> result.message]))
  /\ UNCHANGED <<files, error, stored>>
  /\ UNCHANGED <<serverVars, scanVars>>

\* the insert into clinical_analyses resolves, with the row inserted or not
AnalysisInserted ==
  /\ pc = "clinical_analyses.insert"
  /\ \E inserted \in BOOLEAN :
       /\ stored' = IF inserted THEN stored + 1 ELSE stored
       /\ NextIteration(recordsAfterInsert(batchResults, files[fileIndex + 1],
                                           inserted))
  /\ UNCHANGED <<files, error>>
  /\ UNCHANGED <<serverVars, scanVars>>

\* the update of batch_analyses resolves: setResults, setProcessing(false)
BatchRecordUpdated ==
  /\ pc = "batch_analyses.update"
  /\ Finish(batchResults)
  /\ UNCHANGED <<files, progress, error, stored>>
  /\ UNCHANGED <<serverVars, scanVars>>

\* what a started handleBatchProcess does by itself
BatchStep ==
  \/ BatchRecordInserted
  \/ FileTextRead
  \/ FileTextRejected
  \/ NerResolved
  \/ NerThrew
  \/ AnalysisInserted
  \/ BatchRecordUpdated

NextBatch ==
  \/ handleFileChange
  \/ BatchProcessNoFiles
  \/ BatchProcessStart
  \/ BatchStep

\* every promise awaited settles, so a started run goes on
SpecBatch == Init /\ [][NextBatch]_vars /\ WF_vars(BatchStep)



(***************************************************************************)
(* Properties of the responses.                                            *)
(***************************************************************************)
\* the request in service is a POST of the given type whose body parsed
Serving(type) ==
  /\ request.method = "POST"
  /\ request.wellFormed
  /\ request.type = type
  /\ Len(responses) = 1

\* the calls of extractEntities made for the request in service: arguments,
\* outcomes of Math.random() consumed before the call, and returned list
Extractions ==
  IF Serving("ner")
  THEN {[text |-> request.text, model |-> request.model,
         threshold |-> request.confidenceThreshold, offset |-> 0,
         entities |-> responses[1].body.data.entities]}
  ELSE IF Serving("comparison")
  THEN {[text |-> request.text, model |-> models[i],
         threshold |-> Some(ComparisonThreshold),
         offset |-> (i - 1) * (Len(draws) \div Len(models)),
         entities |-> responses[1].body.data.models[i].entities] :
           i \in 1..Len(models)}
  ELSE {}

\* the records summarising a list of entities in the response in service
Summaries ==
  IF Serving("ner") THEN {responses[1].body.data}
  ELSE IF Serving("comparison")
  THEN {responses[1].body.data.models[i] : i \in 1..Len(models)}
  ELSE {}

\* the threshold a call compares with: its argument, or the default 0.5
Effective(threshold) == IF threshold = None THEN DefaultThreshold ELSE threshold[1]

RECURSIVE IsSubsequence(_, _)
IsSubsequence(a, b) ==
  IF a = <<>> THEN TRUE
  ELSE IF b = <<>> THEN FALSE
  ELSE IF Head(a) = Head(b) THEN IsSubsequence(Tail(a), Tail(b))
  ELSE IsSubsequence(a, Tail(b))

\* C1: every entity returned by extractEntities, for every text, model and
\* threshold, has 0 <= start < end <= length(text), and its text field is the
\* substring of the input text from start to end.
EntitySpansValid ==
  \A x \in Extractions : \A i \in 1..Len(x.entities) :
    LET e == x.entities[i]
        t == toStringJS(x.text)
    IN /\ 0 <= e.start
       /\ e.start < e.end
       /\ e.end <= Len(t)
       /\ e.text = SubSeq(t, e.start + 1, e.end)

\* C1 happens: a call returned several entities, one of them strictly inside
\* the text and one ending where the text ends
EntitySpansSeen ==
  \E x \in Extractions :
    /\ \E i \in 1..Len(x.entities) :
         x.entities[i].start > 0 /\ x.entities[i].end < Len(x.text)
    /\ \E i \in 1..Len(x.entities) : x.entities[i].end = Len(x.text)

\* C2: the confidence of every returned entity, as returned (rounded to four
\* decimals), is >= the threshold of the call and <= 0.99.
ConfidenceWithinThresholdAndCap ==
  \A x \in Extractions : \A i \in 1..Len(x.entities) :
    /\ x.entities[i].confidence >= Effective(x.threshold)
    /\ x.entities[i].confidence <= MaxConfidence

\* C3: for the same text, model and random draws, the entities returned at a
\* threshold are a subsequence of those returned at any lower threshold, so
\* raising the threshold never increases the entity count.
ThresholdMonotone ==
  Serving("ner") =>
    \A lower \in Thresholds :
      Effective(lower) <= Effective(request.confidenceThreshold) =>
        LET atLower == extractEntities(request.text, request.model, lower, draws, 0)
            atHigher == responses[1].body.data.entities
        IN /\ IsSubsequence(atHigher, atLower)
           /\ Len(atHigher) <= Len(atLower)

\* C3 happens: the threshold of the request dropped some entities that a lower
\* threshold keeps, and kept others
ThresholdDropsSome ==
  /\ Serving("ner")
  /\ responses[1].body.data.entityCount > 0
  /\ \E lower \in Thresholds :
       /\ Effective(lower) < Effective(request.confidenceThreshold)
       /\ Len(extractEntities(request.text, request.model, lower, draws, 0))
            > responses[1].body.data.entityCount

\* the eleven category tags
CategoryTags == {"TUMOR_SIZE", "TUMOR_TYPE", "TUMOR_CLASSIFICATION", "GRADE",
                 "RECEPTOR_STATUS", "STAGE", "TNM_STAGE", "TREATMENT",
                 "MEDICATION", "AGE", "GENDER"}

\* C4: in the 'ner' response and in every per-model record of the comparison
\* response, entityTypes holds exactly the distinct types of the returned
\* entities, each once, entityCount is the number of returned entities, and
\* every type is one of the eleven category tags.
EntityTypesExact ==
  \A r \in Summaries :
    /\ Range(r.entityTypes) = {r.entities[i].type : i \in 1..Len(r.entities)}
    /\ Cardinality(Range(r.entityTypes)) = Len(r.entityTypes)
    /\ r.entityCount = Len(r.entities)
    /\ Range(r.entityTypes) \subseteq CategoryTags

\* C4 happens: a per-model record of a comparison holds entities of several
\* types, two of them of the same type
EntityTypesRepeated ==
  /\ Serving("comparison")
  /\ \E r \in Summaries :
       /\ Len(r.entityTypes) >= 2
       /\ Len(r.entities) > Len(r.entityTypes)

\* C5: a 'ner' request with empty text, for any model and threshold, succeeds
\* with entities = [], entityCount = 0, avgConfidence = 0, entityTypes = [].
EmptyTextEmptyResult ==
  (Serving("ner") /\ request.text = <<>>) =>
    responses[1] = [status |-> 200,
                    body |-> [success |-> TRUE,
                              data |-> [entities |-> <<>>, entityCount |-> 0,
                                        avgConfidence |-> 0, entityTypes |-> <<>>]]]

\* C5 happens: empty text was analysed with a model and a threshold below
\* every confidence
EmptyTextServed ==
  /\ Serving("ner")
  /\ request.text = <<>>
  /\ request.model = "ClinicalBERT"
  /\ request.confidenceThreshold = Some(0 - 100000)
  /\ responses[1].status = 200

\* the four analysis types and the fields each computes for its result
AnalysisTypes == {"ner", "summarization", "qa", "comparison"}
ResultFields(type) ==
  CASE type = "ner" -> {"entities", "entityCount", "avgConfidence", "entityTypes"}
    [] type = "summarization" -> {"summary", "originalLength", "summaryLength",
                                  "originalWords", "summaryWords", "compressionRatio"}
    [] type = "qa" -> {"answer", "confidence", "context"}
    [] type = "comparison" -> {"models", "recommendation"}

\* C6: a request whose type is none of 'ner', 'summarization', 'qa',
\* 'comparison' (a missing type included) runs none of the four operations and
\* is answered with status 400 and {success: false, error: "Invalid analysis
\* type"}.
InvalidTypeRejected ==
  (/\ request.method = "POST"
   /\ request.wellFormed
   /\ request.type \notin AnalysisTypes) =>
    /\ ran = <<>>
    /\ responses = <<[status |-> 400,
                      body |-> [success |-> FALSE,
                                error |-> "Invalid analysis type"]]>>

\* C6 happens: a request without a type, carrying a text and a model, was
\* answered
MissingTypeServed ==
  /\ request.method = "POST"
  /\ request.wellFormed
  /\ request.type = "undefined"
  /\ request.text # undefined
  /\ request.model = "BioBERT"
  /\ Len(responses) = 1

\* the request in service makes the handler throw: its body is no JSON object,
\* its type is unknown, or the operation reads a field that is missing
Throws ==
  \/ ~request.wellFormed
  \/ request.type \notin AnalysisTypes
  \/ request.type \in {"summarization", "qa"} /\ request.text = undefined
  \/ request.type = "qa" /\ request.question = undefined

\* C7: every non-OPTIONS request gets exactly one response, either status 200
\* with {success: true, data: <full result>} or status 400 with {success:
\* false, error: <string>}, never both data and error; an exception inside an
\* operation yields the failure form, never a partial result.
OneResponseSuccessOrFailure ==
  request.method = "POST" =>
    /\ Len(responses) = 1
    /\ LET r == responses[1]
       IN IF Throws
          THEN /\ r.status = 400
               /\ DOMAIN r.body = {"success", "error"}
               /\ r.body.success = FALSE
               /\ r.body.error \in STRING
          ELSE /\ r.status = 200
               /\ DOMAIN r.body = {"success", "data"}
               /\ r.body.success = TRUE
               /\ ResultFields(request.type) \subseteq DOMAIN r.body.data

\* C7 happens: answerQuestion threw on a request that has a text and no
\* question, and the request was answered
ExceptionAnswered ==
  /\ request.method = "POST"
  /\ request.type = "qa"
  /\ request.text # undefined
  /\ request.question = undefined
  /\ ran = <<"answerQuestion">>
  /\ Len(responses) = 1
  /\ responses[1].status = 400

\* the keyword groups in lookup order and the confidence of each
GroupKeywords == <<{<<"s","i","z","e">>, <<"l","a","r","g","e">>}, {<<"r","e","c","e","p","t","o","r">>, <<"e","r">>, <<"h","e","r","2">>}, {<<"s","t","a","g","e">>},
                   {<<"t","r","e","a","t","m","e","n","t">>, <<"t","h","e","r","a","p","y">>}>>
GroupConfidence == <<920000, 890000, 870000, 850000>>
\* the groups a question has a keyword of
Asked(question) ==
  {k \in 1..Len(GroupKeywords) :
     \E w \in GroupKeywords[k] : includes(toLowerCase(question), w)}
\* the groups whose pattern occurs in a text
Found(text) == {k \in 1..Len(GroupKeywords) : match(text, k).index # NoMatch}
\* the match of group k's pattern in a text, as a string
MatchText(text, k) == substring(text, match(text, k).index, match(text, k).end)

\* a 'qa' request with a text and a question has been answered
QaAnswered ==
  /\ Serving("qa")
  /\ request.text # undefined
  /\ request.question # undefined

\* C8: for a question with keywords of exactly one group and a text in which
\* that group's pattern occurs, the answer is the first match of the pattern
\* and the confidence is the group's (0.92 size, 0.89 receptor, 0.87 stage,
\* 0.85 treatment), whatever the model.
SingleGroupAnswersFirstMatch ==
  QaAnswered =>
    \A k \in 1..Len(GroupKeywords) :
      (Asked(request.question) = {k} /\ k \in Found(request.text)) =>
        /\ responses[1].status = 200
        /\ responses[1].body.data.answer = MatchText(request.text, k)
        /\ responses[1].body.data.confidence = GroupConfidence[k]

\* C8 happens: a size question in mixed case, without a model, was answered
\* from a text that holds two sizes
SizeQuestionAnswered ==
  /\ QaAnswered
  /\ Asked(request.question) = {1}
  /\ request.question # toLowerCase(request.question)
  /\ request.model = "undefined"
  /\ 1 \in Found(request.text)
  /\ exec(sizeRegex, request.text, match(request.text, 1).end).index # NoMatch
  /\ responses[1].body.data.confidence = GroupConfidence[1]

\* C9: if the question has no keyword, or the pattern its keywords target is
\* absent from the text, the answer is 'Unable to find answer in the provided
\* text.' and the confidence is 0.
NothingFoundNoAnswer ==
  (QaAnswered /\ Asked(request.question) \cap Found(request.text) = {}) =>
      /\ responses[1].status = 200
      /\ responses[1].body.data.answer = <<"U","n","a","b","l","e"," ","t","o"," ","f","i","n","d"," ","a","n","s","w","e","r"," ","i","n"," ","t","h","e"," ","p","r","o","v","i","d","e","d"," ","t","e","x","t",".">>
      /\ responses[1].body.data.confidence = 0

\* C9 happens: the question asks for something the text does not hold, while
\* the text holds what other questions ask for
TargetAbsentServed ==
  /\ QaAnswered
  /\ Asked(request.question) # {}
  /\ Found(request.text) # {}
  /\ Asked(request.question) \cap Found(request.text) = {}
  /\ responses[1].body.data.confidence = 0

\* the text around the match of group k's pattern: from 50 characters before
\* the first occurrence of the matched string to 100 after its start, trimmed
ContextAround(text, k) ==
  LET index == indexOf(text, MatchText(text, k))
  IN trim(substring(text, Max(0, index - ContextBefore),
                    Min(Len(text), index + ContextAfter)))

\* C10: when the question has keywords of several groups, the lookups run in
\* the order size, receptor, stage, treatment, and answer, confidence and
\* context are those of the last lookup in that order that found a match; a
\* later lookup without a match leaves the earlier answer in place.
LastFoundLookupWins ==
  QaAnswered =>
    LET hits == Asked(request.question) \cap Found(request.text)
    IN (Cardinality(Asked(request.question)) >= 2 /\ hits # {}) =>
         LET k == CHOOSE h \in hits : \A g \in hits : g <= h
         IN /\ responses[1].body.data.answer = MatchText(request.text, k)
            /\ responses[1].body.data.confidence = GroupConfidence[k]
            /\ responses[1].body.data.context = ContextAround(request.text, k)

\* C10 happens: two lookups found a match, at places whose contexts differ,
\* and the last lookup that ran found none
LaterMissKeepsEarlier ==
  /\ QaAnswered
  /\ Len(request.text) > ContextBefore + ContextAfter
  /\ LET asked == Asked(request.question)
         hits == asked \cap Found(request.text)
     IN /\ Cardinality(hits) >= 2
        /\ \E g \in asked : g \notin hits /\ \A h \in hits : h < g
        /\ \E k \in hits :
             /\ \A h \in hits : h <= k
             /\ responses[1].body.data.answer = MatchText(request.text, k)
             /\ \E h \in hits :
                  ContextAround(request.text, h) # responses[1].body.data.context

\* C11: compareModels returns, for every text (empty or not), exactly three
\* model records in the order BioBERT, ClinicalBERT, PubMedBERT, and
\* recommendation.model is the model name of one of those records.
ThreeRecordsAndOneRecommended ==
  Serving("comparison") =>
    LET data == responses[1].body.data
    IN /\ responses[1].status = 200
       /\ Len(data.models) = 3
       /\ [i \in 1..3 |-> data.models[i].model]
            = <<"BioBERT", "ClinicalBERT", "PubMedBERT">>
       /\ \E i \in 1..3 : data.recommendation.model = data.models[i].model

\* C11 happens: a comparison over a text with entities recommended a model
\* that is not the first of the list
LaterModelRecommended ==
  /\ Serving("comparison")
  /\ responses[1].body.data.models[1].entityCount > 0
  /\ responses[1].body.data.recommendation.model # "BioBERT"

\* C12: the recommended model is the record of maximal score entityCount *
\* avgConfidence (avgConfidence as rounded in the record); among records of
\* maximal score the earliest in the list is recommended, so a text without
\* entities recommends BioBERT.
FirstMaximalScoreRecommended ==
  Serving("comparison") =>
    LET data == responses[1].body.data
        scoreOf(i) == data.models[i].entityCount * data.models[i].avgConfidence
        maximal == {i \in 1..Len(data.models) :
                      \A j \in 1..Len(data.models) : scoreOf(j) <= scoreOf(i)}
        first == CHOOSE i \in maximal : \A j \in maximal : i <= j
    IN /\ data.recommendation.model = data.models[first].model
       /\ (\A i \in 1..Len(data.models) : data.models[i].entityCount = 0)
            => data.recommendation.model = "BioBERT"

\* C12 happens: two records share a maximal score above 0 and the earlier one
\* is recommended
TiedScoresFirstRecommended ==
  /\ Serving("comparison")
  /\ LET data == responses[1].body.data
         scoreOf(i) == data.models[i].entityCount * data.models[i].avgConfidence
     IN /\ scoreOf(1) > 0
        /\ scoreOf(1) = scoreOf(2)
        /\ scoreOf(3) < scoreOf(1)
        /\ data.recommendation.model = "BioBERT"

\* a 'summarization' request with a text has been answered
Summarized ==
  /\ Serving("summarization")
  /\ request.text # undefined

\* the sentences of a text: the pieces between runs of . ! ? that are not
\* blank
SentencesOf(text) ==
  SelectSeq(split(text, {".", "!", "?"}), LAMBDA s : Len(trim(s)) > 0)

\* C13: summarizing an input of exactly two sentences returns a summary that
\* holds both sentences, in their order, none dropped: the first, ". ", the
\* second, ".".
TwoSentencesBothKept ==
  (Summarized /\ Len(SentencesOf(request.text)) = 2) =>
    /\ responses[1].status = 200
    /\ responses[1].body.data.summary =
         SentencesOf(request.text)[1] \o <<"."," ">> \o SentencesOf(request.text)[2] \o <<".">>

\* C13 happens: a text of two different sentences, with more text after the
\* second, was summarized
TwoSentencesSummarized ==
  /\ Summarized
  /\ Len(SentencesOf(request.text)) = 2
  /\ SentencesOf(request.text)[1] # SentencesOf(request.text)[2]
  /\ Len(request.text) >
       Len(SentencesOf(request.text)[1]) + Len(SentencesOf(request.text)[2]) + 2
  /\ responses[1].status = 200

\* C14: for an input of at most two sentences, summarizing the summary
\* returned yields that same summary again.
ShortSummaryIdempotent ==
  (Summarized /\ Len(SentencesOf(request.text)) <= 2) =>
    summarizeText(responses[1].body.data.summary, request.model).summary
      = responses[1].body.data.summary

\* C15: the model argument of summarizeText does not affect its result: all
\* six fields are equal for every two models.
SummaryIgnoresModel ==
  Serving("summarization") =>
    \A model \in ModelNames :
      respond(summarizeText(request.text, model)) = responses[1]

\* C15 happens: a text of three or more sentences was summarized for a model
\* of the bonus table
ModelGivenToSummary ==
  /\ Summarized
  /\ request.model = "ClinicalBERT"
  /\ Len(SentencesOf(request.text)) >= 3
  /\ DOMAIN responses[1].body.data =
       {"summary", "originalLength", "summaryLength", "originalWords",
        "summaryWords", "compressionRatio"}

MissingFieldsNotRejected ==
  (/\ request.method = "POST"
   /\ request.wellFormed
   /\ request.type \in AnalysisTypes
   /\ \/ request.text = undefined
      \/ request.model = "undefined"
      \/ request.type = "qa" /\ request.question = undefined) =>
    /\ responses[1].status = 200
    /\ responses[1].body.success = TRUE

\* C18: when answerQuestion finds a match, the context is the trimmed
\* substring of the text from 50 characters before the matched span to 100
\* characters after the matched span, clamped to the text; when it finds
\* none, the context is the first 150 characters of the text and '...'.
ContextAroundMatchedSpan ==
  QaAnswered =>
    LET hits == Asked(request.question) \cap Found(request.text)
        text == request.text
    IN IF hits = {}
       THEN responses[1].body.data.context = SubSeq(text, 1, Min(150, Len(text))) \o <<".",".",".">>
       ELSE LET m == match(text, CHOOSE h \in hits : \A g \in hits : g <= h)
            IN responses[1].body.data.context =
                 trim(SubSeq(text, Max(0, m.index - 50) + 1,
                             Min(Len(text), m.end + 100)))

\* the first k of the sentences S, each followed by ". " but the last, which
\* is followed by "."
RECURSIVE Joined(_, _)
Joined(S, k) ==
  IF k = 0 THEN <<".">>
  ELSE IF k = 1 THEN S[1] \o <<".">>
  ELSE SubSeq(Joined(S, k - 1), 1, Len(Joined(S, k - 1)) - 1) \o <<"."," ">> \o S[k] \o <<".">>

\* C19: for a text of n non-blank sentences the summary is built from the
\* first max(2, floor(0.3 * n)) sentences in their order, capped at n: never
\* more sentences than the input has, never a sentence that is not in it.
SummaryOfFirstSentences ==
  Summarized =>
    LET S == SentencesOf(request.text)
        n == Len(S)
        wanted == Max(2, (3 * n) \div 10)
        k == IF wanted <= n THEN wanted ELSE n
    IN /\ responses[1].status = 200
       /\ responses[1].body.data.summary = Joined(S, k)

\* C19 happens: a text of ten or more sentences was summarized by its first
\* three
ThreeOfManySentences ==
  /\ Summarized
  /\ Len(SentencesOf(request.text)) >= 10
  /\ responses[1].body.data.summary = Joined(SentencesOf(request.text), 3)

\* the rules of the table that produce the entity e from the text t: those of
\* its type whose pattern matches at e.start up to e.end
RulesProducing(e, t) ==
  LET ends == IF t \in DOMAIN matchEndsOf THEN matchEndsOf[t] ELSE MatchEnds(t)
  IN {r \in 1..Len(allPatterns) :
        /\ allPatterns[r].type = e.type
        /\ e.start + 1 \in DOMAIN ends[r]
        /\ ends[r][e.start + 1] = e.end}

\* the entities from the i-th on can be attributed to rules in table order,
\* those of one rule left to right without overlap, given the rule and the
\* end of the entity before
RECURSIVE InScanOrder(_, _, _, _, _)
InScanOrder(entities, t, i, rule, end) ==
  IF i > Len(entities) THEN TRUE
  ELSE LET next == {r \in RulesProducing(entities[i], t) :
                      r > rule \/ (r = rule /\ entities[i].start >= end)}
       IN /\ next # {}
          /\ InScanOrder(entities, t, i + 1,
                         CHOOSE r \in next : \A q \in next : r <= q,
                         entities[i].end)

\* C20: the entities returned by extractEntities are in rule-table order and,
\* within one rule, in left-to-right scan order: entities of an earlier rule
\* precede those of a later rule, and entities of one rule have strictly
\* increasing starts and disjoint spans.
EntitiesInRuleThenScanOrder ==
  \A x \in Extractions : InScanOrder(x.entities, toStringJS(x.text), 1, 0, 0)

\* C20 happens: the entities are not sorted by position (a rule later in the
\* table matched earlier in the text) and one rule produced two of them
RuleOrderNotPositionOrder ==
  \E x \in Extractions :
    /\ \E i, j \in 1..Len(x.entities) :
         i < j /\ x.entities[i].start > x.entities[j].start
    /\ \E i \in 1..(Len(x.entities) - 1) :
         /\ x.entities[i].type = "TUMOR_SIZE"
         /\ x.entities[i + 1].type = "TUMOR_SIZE"
         /\ x.entities[i].end <= x.entities[i + 1].start

\* the matches of one pattern in a text from offset `from` on, left to right
\* and without overlap, read from the table `ends` of its match ends
RECURSIVE MatchesOfRule(_, _, _)
MatchesOfRule(ends, type, from) ==
  LET starts == {p \in DOMAIN ends : p - 1 >= from /\ ends[p] # NoMatch}
  IN IF starts = {} THEN <<>>
     ELSE LET p == CHOOSE q \in starts : \A o \in starts : q <= o
          IN <<[type |-> type, start |-> p - 1, end |-> ends[p]]>>
               \o MatchesOfRule(ends, type, ends[p])

\* the (rule, match) pairs of a text: the matches of every pattern, in table
\* order
RECURSIVE MatchesOfRules(_, _)
MatchesOfRules(ends, r) ==
  IF r > Len(allPatterns) THEN <<>>
  ELSE MatchesOfRule(ends[r], allPatterns[r].type, 0)
         \o MatchesOfRules(ends, r + 1)
ruleMatchesOf == [t \in DOMAIN matchEndsOf |-> MatchesOfRules(matchEndsOf[t], 1)]

\* the confidence of a match before rounding, from its random draw r and the
\* model name
Bonus(model) ==
  CASE model = "BioBERT" -> 50000
    [] model = "ClinicalBERT" -> 80000
    [] model = "PubMedBERT" -> 30000
    [] OTHER -> 0
Unrounded(r, model) == Min(990000, 750000 + (r \div 5) + Bonus(model))

\* the (rule, match) pairs of the call x whose confidence reaches the
\* threshold, as indexes into the pairs of its text
KeptPairs(x) ==
  SelectSeq([k \in 1..Len(ruleMatchesOf[toStringJS(x.text)]) |-> k],
            LAMBDA k : Unrounded(draws[x.offset + k], x.model)
                         >= Effective(x.threshold))

\* C21: matches of different rules are never deduplicated: the returned list
\* has exactly one entity for every (rule, match) pair whose confidence is at
\* least the threshold, in order, also when its span overlaps the span of
\* another rule's match.
OneEntityPerRuleMatch ==
  \A x \in Extractions :
    LET pairs == ruleMatchesOf[toStringJS(x.text)]
        kept == KeptPairs(x)
    IN /\ Len(x.entities) = Len(kept)
       /\ \A j \in 1..Len(kept) :
            /\ x.entities[j].type = pairs[kept[j]].type
            /\ x.entities[j].start = pairs[kept[j]].start
            /\ x.entities[j].end = pairs[kept[j]].end

\* C21 happens: two entities of one returned list come from different rules
\* and share characters of the text
OverlappingEntitiesReturned ==
  \E x \in Extractions :
    \E i, j \in 1..Len(x.entities) :
      /\ i < j
      /\ x.entities[i].start < x.entities[j].end
      /\ x.entities[j].start < x.entities[i].end

PairsReaching(thr) ==
  Cardinality({k \in 1..Len(ruleMatchesOf[toStringJS(request.text)]) :
                 Unrounded(draws[k], request.model) >= thr})

ScanTerminates ==
  /\ [][Len(matched') > Len(matched) => regexLastIndex' > regexLastIndex]_vars
  /\ [](\A i \in 1..Len(matched) :
          /\ matched[i].end > matched[i].start
          /\ \A j \in (i + 1)..Len(matched) :
               matched[j].rule = matched[i].rule
                 => matched[j].start >= matched[i].end)
  /\ [](\A r \in 1..Len(allPatterns) :
          Cardinality({i \in 1..Len(matched) : matched[i].rule = r})
            <= Len(scanText))
  /\ (patternIndex > 0) ~> (patternIndex = 0)

\* C24 happens: a call has returned after the loop of one rule went through
\* several matches, and the matches are those extractEntities works on
ScanReturnedWithRepeatedRule ==
  /\ patternIndex = 0
  /\ \E i \in 1..(Len(matched) - 1) : matched[i].rule = matched[i + 1].rule
  /\ [i \in 1..Len(matched) |->
        [type |-> matched[i].type, start |-> matched[i].start,
         end |-> matched[i].end]] = matchesOf(scanText)

Located(e) == [text |-> e.text, type |-> e.type, start |-> e.start, end |-> e.end]

\* C26: in every comparison result the three model records have the same
\* entityCount, the same entityTypes and the same sequence of entity (text,
\* type, start, end); they differ only in confidence values, so the
\* recommended model is the first one whose avgConfidence is the largest.
ComparisonRecordsDifferInConfidenceOnly ==
  Serving("comparison") =>
    LET data == responses[1].body.data
        records == data.models
    IN /\ \A i, j \in 1..Len(records) :
            /\ records[i].entityCount = records[j].entityCount
            /\ records[i].entityTypes = records[j].entityTypes
            /\ Len(records[i].entities) = Len(records[j].entities)
            /\ \A k \in 1..Len(records[i].entities) :
                 Located(records[i].entities[k]) = Located(records[j].entities[k])
       /\ \E i \in 1..Len(records) :
            /\ data.recommendation.model = records[i].model
            /\ \A j \in 1..Len(records) :
                 records[j].avgConfidence <= records[i].avgConfidence
            /\ \A j \in 1..(i - 1) :
                 records[j].avgConfidence < records[i].avgConfidence

\* C26 happens: a comparison of a text with several matches gives records
\* whose confidences differ at an equal place, and the second model is
\* recommended
SameEntitiesOtherConfidences ==
  /\ Serving("comparison")
  /\ LET records == responses[1].body.data.models
     IN /\ records[1].entityCount >= 2
        /\ records[1].entities[1].confidence # records[2].entities[1].confidence
        /\ responses[1].body.data.recommendation.model = "ClinicalBERT"

\* a occurs in t as a run of consecutive characters
IsSubstring(a, t) ==
  \E i \in 0..(Len(t) - Len(a)) : SubSeq(t, i + 1, i + Len(a)) = a

\* C27: every QAResult has a confidence among 0, 0.85, 0.87, 0.89 and 0.92;
\* the confidence is 0 exactly when the answer is the fixed string 'Unable to
\* find answer in the provided text.'; and when the confidence is not 0 the
\* answer is a substring of the input text and the context is a non-empty
\* substring of the input text of at most 150 characters.
QaResultWellFormed ==
  (Serving("qa") /\ responses[1].status = 200) =>
    LET result == responses[1].body.data
    IN /\ result.confidence \in {0, 850000, 870000, 890000, 920000}
       /\ result.confidence = 0
            <=> result.answer = <<"U","n","a","b","l","e"," ","t","o"," ","f","i","n","d"," ","a","n","s","w","e","r"," ","i","n"," ","t","h","e"," ","p","r","o","v","i","d","e","d"," ","t","e","x","t",".">>
       /\ result.confidence # 0 =>
            /\ IsSubstring(result.answer, request.text)
            /\ Len(result.context) \in 1..150
            /\ IsSubstring(result.context, request.text)

\* C27 happens: an answer with capital letters is found in a text longer than
\* 150 characters, with a context of more than 100 characters
LongContextAnswered ==
  /\ Serving("qa")
  /\ responses[1].status = 200
  /\ responses[1].body.data.confidence = 890000
  /\ responses[1].body.data.answer # toLowerCase(responses[1].body.data.answer)
  /\ Len(request.text) > 150
  /\ Len(responses[1].body.data.context) > 100

\* C28: for every text, summaryWords <= originalWords in the SummaryResult, so
\* the reported compressionRatio is never negative and never above 100%.
SummaryWordsAtMostOriginal ==
  Summarized =>
    LET result == responses[1].body.data
    IN /\ result.summaryWords <= result.originalWords
       /\ Head(result.compressionRatio) # "-"
       /\ compressionTenths(result.summaryWords, result.originalWords) <= 1000

\* a record of the result list is a success record or a failure record
IsSuccessRecord(r) ==
  /\ DOMAIN r = {"filename", "success", "entityCount", "avgConfidence", "entities"}
  /\ r.success = TRUE
  /\ r.entityCount = Len(r.entities)
IsFailureRecord(r) ==
  /\ DOMAIN r = {"filename", "success", "error"}
  /\ r.success = FALSE

\* C29: when a batch run over k selected files finishes, the result list
\* holds exactly k records, one per file in file order, each a success record
\* or a failure record; a failed extraction or a failed persistence for one
\* file never stops the remaining files from being processed (the loop is
\* left early only at a file that cannot be read) and never produces two
\* records for the same file.
BatchResultsOnePerFile ==
  /\ pc = "done" =>
       /\ Len(resultsState) = Len(files)
       /\ \A k \in 1..Len(files) :
            /\ resultsState[k].filename = files[k].name
            /\ IsSuccessRecord(resultsState[k]) \/ IsFailureRecord(resultsState[k])
  /\ \A a, b \in 1..Len(batchResults) :
       a # b => batchResults[a].filename # batchResults[b].filename
  /\ pc = "rejected" => files[fileIndex + 1].content = None
  /\ pc \in {"file.text", "performNER"} => Len(batchResults) = fileIndex

\* C29 happens: a run over three files has finished in which the extraction
\* of the first file failed and the persistence of the others failed
BatchFinishedDespiteFailures ==
  /\ pc = "done"
  /\ Len(files) = 3
  /\ Len(resultsState) = 3
  /\ ~resultsState[1].success
  /\ resultsState[2].success
  /\ resultsState[3].success
  /\ stored = 0

\* C30: every batch run that is started eventually ends: the processing flag
\* set to true at the start is eventually set back to false whatever
\* per-file successes and failures occur, progress never decreases during
\* the run, and progress is 100 when the run ends.
BatchRunEnds ==
  /\ processing ~> ~processing
  /\ [][processing => progress' >= progress]_vars
  /\ [][(processing /\ ~processing') => progress' = 100]_vars
=============================================================================
